---- MODULE Spec2Model ----
(***************************************************************************)
(* GLACIER fuzzy hashing: the two hasher programs (Glacier.py, GLACIER.py) *)
(* and the consolidator (Consolidate.py).                                  *)
(*                                                                         *)
(* Byte buffers are sequences of integers 0..255, signatures are sequences *)
(* of one-character strings (lowercase hex digits).  Offsets are 0-based   *)
(* as in the Python source; the element at offset i of a buffer d is       *)
(* d[i + 1].                                                               *)
(*                                                                         *)
(* The sizes of the source (64-byte window, 13 boundary bits, 2048/65536   *)
(* chunk limits, 61/54-bit moduli) are scaled down so that buffers of a    *)
(* few bytes exercise every branch.  The scaled defaults keep the order of *)
(* the real ones: bits < window_size < min_chunk < max_chunk, and          *)
(* 2^bits < modulus.                                                       *)
(***************************************************************************)
EXTENDS Integers, Sequences, FiniteSets, TLC

---------------------------------------------------------------------------
(* Bounds of the model *)

\* longest input buffer
MaxLen == 6
\* calls made on one hasher instance (the two-file compare mode makes two)
MaxCalls == 2

(* Scaled defaults of the source *)

\* window_size = 64 (RollingHash, RabinFingerprint, FuzzyHasher)
window_size == 2
\* bits = 13 (AdaptiveChunker default; RabinFingerprint.mask = (1 << 13) - 1)
bits == 1
\* min_chunk = 2048
DefaultMinChunk == 3
\* max_chunk = 65536
DefaultMaxChunk == 4
\* RollingHash.modulus = (1 << 61) - 1, here the Mersenne prime 2^13 - 1
modulus == 8191
\* RabinFingerprint.poly = 0x3DA3358B4DC173, here a 9-bit prime
poly == 509
\* RollingHash.base, and the literal 256 of RabinFingerprint
base == 256

\* bytes of the input buffers: an ASCII letter-like byte, the space, and
\* 0xFF, which no UTF-8 text contains
Bytes == {2, 32, 255}

None == <<"None">>

---------------------------------------------------------------------------
(* Helpers *)

Min(a, b) == IF a < b THEN a ELSE b

RECURSIVE Pow2(_)
Pow2(n) == IF n = 0 THEN 1 ELSE 2 * Pow2(n - 1)

\* x & y on naturals
RECURSIVE BitAnd(_, _)
BitAnd(x, y) ==
    IF x = 0 \/ y = 0 THEN 0
    ELSE (x % 2) * (y % 2) + 2 * BitAnd(x \div 2, y \div 2)

\* pow(b, e, m)
RECURSIVE PowMod(_, _, _)
PowMod(b, e, m) == IF e = 0 THEN 1 % m ELSE (PowMod(b, e - 1, m) * b) % m

\* all sequences over S of length 0..n
RECURSIVE SeqsUpTo(_, _)
SeqsUpTo(S, n) ==
    IF n = 0 THEN {<<>>}
    ELSE LET shorter == SeqsUpTo(S, n - 1)
         IN shorter \cup {Append(s, x) : s \in {t \in shorter : Len(t) = n - 1}, x \in S}

\* data[lo:hi] with 0-based offsets, hi exclusive
Slice(data, lo, hi) == SubSeq(data, lo + 1, hi)

RECURSIVE Flatten(_)
Flatten(ss) == IF ss = <<>> THEN <<>> ELSE Head(ss) \o Flatten(Tail(ss))

RECURSIVE SumLen(_)
SumLen(ss) == IF ss = <<>> THEN 0 ELSE Len(Head(ss)) + SumLen(Tail(ss))

Buffers == SeqsUpTo(Bytes, MaxLen)

---------------------------------------------------------------------------
(* Chunk hash: hash_chunk (Glacier.py) and FuzzyHasher._hash_chunk         *)
(* (GLACIER.py) are the same code.  The 32-bit value h is kept as two      *)
(* 16-bit halves so that h * 31 + byte is computed exactly modulo 2^32.    *)

HexChars == <<"0", "1", "2", "3", "4", "5", "6", "7",
              "8", "9", "a", "b", "c", "d", "e", "f">>

\* 16 bits as 4 lowercase hex digits, most significant first
Hex16(n) ==
    << HexChars[((n \div 4096) % 16) + 1], HexChars[((n \div 256) % 16) + 1],
       HexChars[((n \div 16) % 16) + 1],   HexChars[(n % 16) + 1] >>

RECURSIVE HashLoop(_, _, _)
HashLoop(chunk, hi, lo) ==
    IF chunk = <<>> THEN <<hi, lo>>
    ELSE LET t == lo * 31 + Head(chunk)
         IN HashLoop(Tail(chunk), (hi * 31 + (t \div 65536)) % 65536, t % 65536)

\* hash_chunk(chunk).hex(): h.to_bytes(4, 'big') rendered as 8 hex digits
hash_chunk(chunk) ==
    LET h == HashLoop(chunk, 0, 0) IN Hex16(h[1]) \o Hex16(h[2])

---------------------------------------------------------------------------
(* normalize_data: decode as UTF-8, ' '.join(text.split()), encode; the    *)
(* raw bytes when the buffer is not UTF-8.  The buffers of the model hold  *)
(* ASCII bytes and 0xFF only, so a buffer decodes iff it has no byte       *)
(* above 127, and each character is one byte.                              *)

\* str.isspace() on the ASCII range
IsSpace(b) == b \in {9, 10, 11, 12, 13, 28, 29, 30, 31, 32}

IsUtf8(data) == \A k \in 1..Len(data) : data[k] < 128

RECURSIVE SplitJoin(_, _, _)
SplitJoin(text, k, out) ==
    IF k > Len(text) THEN out
    ELSE IF IsSpace(text[k]) THEN SplitJoin(text, k + 1, out)
    ELSE IF out # <<>> /\ IsSpace(text[k - 1])
         THEN SplitJoin(text, k + 1, out \o <<32, text[k]>>)
         ELSE SplitJoin(text, k + 1, Append(out, text[k]))

normalize_data(data) ==
    IF IsUtf8(data) THEN SplitJoin(data, 1, <<>>) ELSE data

---------------------------------------------------------------------------
(* Rolling fingerprints.  A fingerprint object is a record                 *)
(* [hash, window]; update returns the object after the call, whose hash    *)
(* field is the value update returns.                                      *)

NewFingerprint == [hash |-> 0, window |-> <<>>]

\* RabinFingerprint.__init__: multiplier = 256^(window_size-1) mod poly
RabinMultiplier == PowMod(256, window_size - 1, poly)

\* update that drops the oldest byte from the window but leaves its term in
\* the hash
RabinFingerprint_update_stale(fp, byte) ==
    LET full == Len(fp.window) = window_size
        w1 == IF full THEN Tail(fp.window) ELSE fp.window
    IN [hash |-> (fp.hash * 256 + byte) % poly, window |-> Append(w1, byte)]

RabinFingerprint_update(fp, byte) ==
    LET full == Len(fp.window) = window_size
        h1 == IF full THEN (fp.hash - Head(fp.window) * RabinMultiplier) % poly
                      ELSE fp.hash
        w1 == IF full THEN Tail(fp.window) ELSE fp.window
    IN [hash |-> (h1 * 256 + byte) % poly, window |-> Append(w1, byte)]

\* RabinFingerprint.mask
RabinMask == Pow2(bits) - 1

is_chunk_boundary(fp) == BitAnd(fp.hash, RabinMask) = 0

\* RollingHash.__init__: multiplier = pow(base, window_size - 1, modulus)
RollingMultiplier == PowMod(base, window_size - 1, modulus)

\* update that removes the newest byte of a full window (pop() for pop(0))
RollingHash_update_pop_last(rh, byte) ==
    LET full == Len(rh.window) = window_size
        n == Len(rh.window)
        h1 == IF full THEN (rh.hash - rh.window[n] * RollingMultiplier) % modulus
                      ELSE rh.hash
        w1 == IF full THEN SubSeq(rh.window, 1, n - 1) ELSE rh.window
    IN [hash |-> (h1 * base + byte) % modulus, window |-> Append(w1, byte)]

RollingHash_update(rh, byte) ==
    LET full == Len(rh.window) = window_size
        h1 == IF full THEN (rh.hash - Head(rh.window) * RollingMultiplier) % modulus
                      ELSE rh.hash
        w1 == IF full THEN Tail(rh.window) ELSE rh.window
    IN [hash |-> (h1 * base + byte) % modulus, window |-> Append(w1, byte)]

---------------------------------------------------------------------------
(* Chunkers.  chunk_data returns the list of (chunk, start) pairs; the     *)
(* model also returns the fingerprint object left behind and, for every    *)
(* offset i of the sweep, the fingerprint after update(data[i]), the       *)
(* chunk_size and whether the code cut there.                              *)

\* chunks.append((data[start:i+1], start))
CutChunk(data, start, i) == [chunk |-> Slice(data, start, i + 1), start |-> start]

\* the remaining data is not added
Remainder_forgotten(data, start, chunks) == chunks

\* if start < data_len: chunks.append((data[start:], start))
Remainder(data, start, chunks) ==
    IF start < Len(data)
    THEN Append(chunks, [chunk |-> Slice(data, start, Len(data)), start |-> start])
    ELSE chunks

\* a cut made at boundaries only, without the max_chunk ceiling
CDC_cut_unbounded(chunk_size, fp, mn, mx) ==
    chunk_size >= mn /\ is_chunk_boundary(fp)

\* the condition of ContentDefinedChunker.chunk_data under which it cuts
CDC_cut(chunk_size, fp, mn, mx) ==
    chunk_size >= mn /\ (is_chunk_boundary(fp) \/ chunk_size >= mx)

RECURSIVE CDC_loop(_, _, _, _, _, _, _)
CDC_loop(data, i, start, fp, chunks, trace, mm) ==
    IF i = Len(data)
    THEN [chunks |-> Remainder(data, start, chunks), fp |-> fp, trace |-> trace]
    ELSE LET fp1 == RabinFingerprint_update(fp, data[i + 1])
             chunk_size == i - start + 1
             cut == CDC_cut(chunk_size, fp1, mm[1], mm[2])
             step == [fingerprint |-> fp1.hash, cut |-> cut]
         IN IF cut
            THEN CDC_loop(data, i + 1, i + 1, fp1,
                          Append(chunks, CutChunk(data, start, i)),
                          Append(trace, step), mm)
            ELSE CDC_loop(data, i + 1, start, fp1, chunks, Append(trace, step), mm)

\* ContentDefinedChunker.chunk_data on a chunker whose fingerprint is fp
ContentDefinedChunker_chunk_data(data, fp, mn, mx) ==
    CDC_loop(data, 0, 0, fp, <<>>, <<>>, <<mn, mx>>)

\* AdaptiveChunker.__init__: mask = (1 << bits) - 1
AdaptiveMask(b) == Pow2(b) - 1

\* the condition of AdaptiveChunker.chunk_data under which it cuts
Adaptive_cut(chunk_size, fp, cfg) ==
    chunk_size >= cfg.min_chunk
    /\ (BitAnd(fp, cfg.mask) = 0 \/ chunk_size >= cfg.max_chunk)

RECURSIVE Adaptive_loop(_, _, _, _, _, _, _)
Adaptive_loop(data, i, start, rh, chunks, trace, cfg) ==
    IF i = Len(data)
    THEN [chunks |-> Remainder(data, start, chunks), fp |-> rh, trace |-> trace]
    ELSE LET rh1 == RollingHash_update(rh, data[i + 1])
             chunk_size == i - start + 1
             cut == Adaptive_cut(chunk_size, rh1.hash, cfg)
             step == [fingerprint |-> rh1.hash, cut |-> cut]
         IN IF cut
            THEN Adaptive_loop(data, i + 1, i + 1, rh1,
                               Append(chunks, CutChunk(data, start, i)),
                               Append(trace, step), cfg)
            ELSE Adaptive_loop(data, i + 1, start, rh1, chunks, Append(trace, step), cfg)

\* AdaptiveChunker(min_chunk, max_chunk, b).chunk_data on a new chunker
AdaptiveChunker_chunk_data(data, mn, mx, b) ==
    Adaptive_loop(data, 0, 0, NewFingerprint, <<>>, <<>>,
                  [min_chunk |-> mn, max_chunk |-> mx, mask |-> AdaptiveMask(b)])

\* GLACIER.py FuzzyHasher._chunk_data: the third positional argument of
\* AdaptiveChunker is bits, and the hasher passes its window_size there
Adaptive_chunk_data(data, mn, mx) ==
    AdaptiveChunker_chunk_data(data, mn, mx, window_size)

RECURSIVE JoinHashes(_)
JoinHashes(chunks) ==
    IF chunks = <<>> THEN <<>>
    ELSE hash_chunk(Head(chunks).chunk) \o JoinHashes(Tail(chunks))

\* the result of one call: the signature returned, the chunks and sweep of
\* chunk_data (empty when it was not called), the fingerprint object after
\* the call
NoChunks(sig, fp, norm) ==
    [sig |-> sig, chunks |-> <<>>, trace |-> <<>>, fp |-> fp,
     normalized |-> norm, chunked |-> FALSE]

\* Glacier.py FuzzyHasher.calculate_signature on a file holding D, on a
\* hasher whose chunker's fingerprint is fp
FuzzyHasher_calculate_signature(D, fp, mn, mx) ==
    IF Len(D) = 0 THEN NoChunks(None, fp, <<>>)
    ELSE LET data == normalize_data(D)
         IN IF Len(data) < mn THEN NoChunks(hash_chunk(data), fp, data)
            ELSE LET r == ContentDefinedChunker_chunk_data(data, fp, mn, mx)
                 IN [sig |-> JoinHashes(r.chunks), chunks |-> r.chunks,
                     trace |-> r.trace, fp |-> r.fp, normalized |-> data,
                     chunked |-> TRUE]

\* GLACIER.py FuzzyHasher.calculate_signature; executor.map returns the
\* chunk hashes in the order of the chunks
AdaptiveHasher_calculate_signature(D, mn, mx) ==
    IF Len(D) = 0 THEN NoChunks(None, NewFingerprint, <<>>)
    ELSE LET data == normalize_data(D)
         IN IF Len(data) < mn THEN NoChunks(hash_chunk(data), NewFingerprint, data)
            ELSE LET r == Adaptive_chunk_data(data, mn, mx)
                 IN [sig |-> JoinHashes(r.chunks), chunks |-> r.chunks,
                     trace |-> r.trace, fp |-> r.fp, normalized |-> data,
                     chunked |-> TRUE]

---------------------------------------------------------------------------
(* Similarity of two signatures.  A similarity is kept as the fraction    *)
(* <<numerator, denominator>> in lowest terms, which stands for the float  *)
(* the code returns (the quotients compared here are far apart enough to   *)
(* be distinct floats).                                                    *)

\* the greatest common divisor of a >= 0 and b > 0
Gcd(a, b) == CHOOSE g \in 1..b : /\ a % g = 0 /\ b % g = 0
                                 /\ \A h \in (g + 1)..b : a % h # 0 \/ b % h # 0

Frac(n, d) == LET g == Gcd(n, d) IN <<n \div g, d \div g>>

\* the float 0.0
Zero == <<0, 1>>

\* x > threshold
Exceeds(x, threshold) == x[1] * threshold[2] > threshold[1] * x[2]

SetMax(S) == CHOOSE x \in S : \A y \in S : y <= x

SetMin(S) == CHOOSE x \in S : \A y \in S : x <= y

\* the length of the longest common prefix of a[i:ahi] and b[j:bhi]
RunLen(a, b, i, j, ahi, bhi) ==
    SetMax({k \in 0..Min(ahi - i, bhi - j) :
               \A m \in 0..(k - 1) : a[i + m + 1] = b[j + m + 1]})

\* difflib.SequenceMatcher.find_longest_match(alo, ahi, blo, bhi) without
\* junk: the longest block a[i:i+k] == b[j:j+k] inside the two ranges, of
\* the longest ones the one that starts earliest in a, and of those the one
\* that starts earliest in b; <<alo, blo, 0>> when nothing matches.
\* (The autojunk purge of popular elements applies to a second sequence of
\* 200 elements or more, longer than any signature of the model.)
find_longest_match(a, b, alo, ahi, blo, bhi) ==
    LET cand == {c \in (alo..(ahi - 1)) \X (blo..(bhi - 1)) : a[c[1] + 1] = b[c[2] + 1]}
    IN IF cand = {} THEN <<alo, blo, 0>>
       ELSE LET size == [c \in cand |-> RunLen(a, b, c[1], c[2], ahi, bhi)]
                bestsize == SetMax({size[c] : c \in cand})
                besti == SetMin({c[1] : c \in {d \in cand : size[d] = bestsize}})
                bestj == SetMin({c[2] : c \in {d \in cand : size[d] = bestsize /\ d[1] = besti}})
            IN <<besti, bestj, bestsize>>

\* the sum of the sizes of SequenceMatcher.get_matching_blocks(): the longest
\* match, then the same to its left and to its right
MatchedChars(a, b, alo, ahi, blo, bhi) ==
    LET matched[r \in (0..Len(a)) \X (0..Len(a)) \X (0..Len(b)) \X (0..Len(b))] ==
            LET m == find_longest_match(a, b, r[1], r[2], r[3], r[4])
                i == m[1]
                j == m[2]
                k == m[3]
            IN IF k = 0 THEN 0
               ELSE k + (IF r[1] < i /\ r[3] < j THEN matched[<<r[1], i, r[3], j>>] ELSE 0)
                      + (IF i + k < r[2] /\ j + k < r[4]
                         THEN matched[<<i + k, r[2], j + k, r[4]>>] ELSE 0)
    IN matched[<<alo, ahi, blo, bhi>>]

\* SequenceMatcher(None, a, b).ratio(): 2.0 * matches / (len(a) + len(b))
ratio(a, b) ==
    IF Len(a) + Len(b) = 0 THEN <<1, 1>>
    ELSE Frac(2 * MatchedChars(a, b, 0, Len(a), 0, Len(b)), Len(a) + Len(b))

\* compare_signatures of Consolidate.py and FuzzyHasher.compare_signatures
\* of Glacier.py (the same code)
compare_signatures(sig1, sig2) ==
    IF sig1 = <<>> \/ sig2 = <<>> THEN Zero ELSE ratio(sig1, sig2)

\* set(sig[i:i+8] for i in range(0, len(sig), 8))
DigestSet(sig) ==
    {SubSeq(sig, i + 1, Min(i + 8, Len(sig))) : i \in {k \in 0..(Len(sig) - 1) : k % 8 = 0}}

\* GLACIER.py FuzzyHasher.compare_signatures: Jaccard similarity of the
\* sets of 8-character digests
Jaccard_compare_signatures(sig1, sig2) ==
    IF sig1 = <<>> \/ sig2 = <<>> THEN Zero
    ELSE LET set1 == DigestSet(sig1)
             set2 == DigestSet(sig2)
             union == set1 \cup set2
         IN IF union # {} THEN Frac(Cardinality(set1 \cap set2), Cardinality(union))
            ELSE Zero

\* two chunk digests: hash_chunk of the chunks <<2, 32, 255, 2>> and
\* <<32, 255, 32>>
DigestA == <<"0", "0", "0", "1", "7", "f", "c", "1">>

DigestB == <<"0", "0", "0", "0", "9", "7", "2", "1">>

\* digests in the longest signature compared
MaxDigests == 2

\* the signatures compared: up to MaxDigests digests
ComparedSignatures == {Flatten(ds) : ds \in SeqsUpTo({DigestA, DigestB}, MaxDigests)}

---------------------------------------------------------------------------
(* Consolidate.py.  A file path is a directory and a base name, the base  *)
(* name a sequence of non-empty dot-separated segments ("a.exe" is         *)
(* <<"a", "exe">>).  A master name is a sequence of segments too.          *)

\* entries in the working catalog
MaxW == 4
\* runs of consolidate_signatures on the same catalogs
MaxRuns == 2

\* signatures of the working catalog: two chunk digests each
CatalogSignatures == {DigestA \o DigestA, DigestA \o DigestB, DigestB \o DigestB}

\* the files of the working catalog, as base name and signature: "a.exe"
\* with each of the signatures, and "a.b.c.d.e"
CatalogRows ==
    {<<<<"a", "exe">>, sig>> : sig \in CatalogSignatures}
        \cup {<<<<"a", "b", "c", "d", "e">>, DigestA \o DigestA>>}

\* signatures an existing master catalog can hold
MasterSignatures == {DigestA \o DigestA, DigestB \o DigestB}

\* similarity_threshold: the default 0.8, and 0.5
Thresholds == {<<4, 5>>, <<1, 2>>}

\* outcomes of random.choices(string.ascii_lowercase + string.digits, k=5)
Suffixes == {"aaaaa", "zzzz9"}

\* compare_signatures on the signatures of the catalogs, computed once
SimilarityTable ==
    {<<a, b, compare_signatures(a, b)>> :
        a \in CatalogSignatures \cup MasterSignatures,
        b \in CatalogSignatures \cup MasterSignatures}

Similarity(a, b) == (CHOOSE t \in SimilarityTable : t[1] = a /\ t[2] = b)[3]

\* process_name(os.path.basename(filepath))
process_name(name) ==
    IF Len(name) > 4 THEN SubSeq(name, 1, 4)
    ELSE IF Len(name) > 1 THEN SubSeq(name, 1, Len(name) - 1)
    ELSE name

\* how often x occurs in the list
Count(list, x) == Cardinality({k \in 1..Len(list) : list[k] = x})

\* Counter(list).most_common(1)[0][0]: the most frequent element, the one
\* that occurs first among equally frequent ones
most_common(list) ==
    LET k == CHOOSE k \in 1..Len(list) :
                 /\ \A m \in 1..Len(list) : Count(list, list[m]) <= Count(list, list[k])
                 /\ \A m \in 1..(k - 1) : Count(list, list[m]) < Count(list, list[k])
    IN list[k]

\* auto_name(filepaths) when random.choices returns random_chars
auto_name(filepaths, random_chars) ==
    LET processed_names == [k \in 1..Len(filepaths) |-> process_name(filepaths[k].name)]
        base_name == IF processed_names # <<>> THEN most_common(processed_names)
                     ELSE <<"Consolidated", "Signature">>
    IN Append(base_name, random_chars)

\* a similarity above the threshold to a signature of the existing master
check_against_master_all(signature, master_sigs, thr) ==
    \A m \in master_sigs : Exceeds(Similarity(signature, m), thr)

check_against_master(signature, master_sigs, thr) ==
    \E m \in master_sigs : Exceeds(Similarity(signature, m), thr)

\* the entries of L[j:] that join the group of a pivot with signature sigp,
\* each compared with the last entry that joined
RECURSIVE Members_chained(_, _, _, _, _)
Members_chained(L, j, sigp, done, thr) ==
    IF j >= Len(L) THEN <<>>
    ELSE IF L[j + 1].filepath \notin done
            /\ Exceeds(Similarity(sigp, L[j + 1].signature), thr)
         THEN <<L[j + 1]>> \o Members_chained(L, j + 1, L[j + 1].signature, done, thr)
         ELSE Members_chained(L, j + 1, sigp, done, thr)

\* the entries of L[j:] that join the group of a pivot with signature sigp
RECURSIVE Members(_, _, _, _, _)
Members(L, j, sigp, done, thr) ==
    IF j >= Len(L) THEN <<>>
    ELSE IF L[j + 1].filepath \notin done
            /\ Exceeds(Similarity(sigp, L[j + 1].signature), thr)
         THEN <<L[j + 1]>> \o Members(L, j + 1, sigp, done, thr)
         ELSE Members(L, j + 1, sigp, done, thr)

\* group = [(filepath1, sig1)] + the entries after i that join
Group(L, i, done, thr) ==
    <<L[i + 1]>> \o Members(L, i + 1, L[i + 1].signature, done, thr)

\* every member, the first one too
filepaths_to_delete_all(group) ==
    {group[k].filepath : k \in 1..Len(group)}

\* filepaths_to_delete = [filepath for filepath, _ in group[1:]]
filepaths_to_delete(group) ==
    {group[k].filepath : k \in 2..Len(group)}

\* DELETE FROM signatures WHERE filepath = ? for each of the paths; the rows
\* left keep their order
RECURSIVE Delete(_, _)
Delete(table, paths) ==
    IF table = <<>> THEN <<>>
    ELSE IF Head(table).filepath \in paths THEN Delete(Tail(table), paths)
         ELSE <<Head(table)>> \o Delete(Tail(table), paths)

\* INSERT OR REPLACE INTO master_signatures (name, signature)
Upsert(table, name, signature) ==
    [n \in DOMAIN table \cup {name} |-> IF n = name THEN signature ELSE table[n]]

Paths(table) == {table[k].filepath : k \in 1..Len(table)}

---------------------------------------------------------------------------
(* State *)

VARIABLES
    program,        \* the program the process runs: "Glacier.py" or "GLACIER.py"
    min_chunk,      \* FuzzyHasher.min_chunk
    max_chunk,      \* FuzzyHasher.max_chunk
    fingerprint,    \* Glacier.py: hasher.chunker.fingerprint, kept across calls
    calls,          \* calls made on the hasher so far
    op,             \* the call that has just returned, "idle" when none
    data,           \* its argument
    before,         \* hasher.chunker.fingerprint when it was called
    result          \* what it returned

hasherVars == <<program, min_chunk, max_chunk, fingerprint, calls, op, data, before, result>>

VARIABLES
    roller,         \* a RollingHash object (GLACIER.py)
    rabin,          \* a RabinFingerprint object (Glacier.py)
    fed_roller,     \* the bytes passed to roller.update so far, in order
    fed_rabin       \* the bytes passed to rabin.update so far, in order

rollVars == <<roller, rabin, fed_roller, fed_rabin>>

VARIABLES
    compared1,      \* first signature of the pair compared
    compared2,      \* second signature of the pair compared
    sims            \* the values compare_signatures has returned for the pair

simVars == <<compared1, compared2, sims>>

VARIABLES
    similarity_threshold,           \* argument of consolidate_signatures
    existing_master_signatures,     \* the signatures of the existing master
    signatures,                     \* the table signatures of db_path, in row order
    master_signatures,              \* the table master_signatures: name -> signature
    all_signatures,                 \* the rows fetched when the run started
    idx,                            \* the index i of the loop
    processed,                      \* processed
    consolidated_count,             \* consolidated_count
    total_consolidated,             \* total_consolidated
    ignored_count,                  \* ignored_count
    pc,                             \* "idle", "loop" (a run is in its loop), "done", "failed"
    runs,                           \* runs started so far
    groups,                         \* the groups of more than one entry formed in this run
    at_start                        \* the two tables when this run started

consVars == <<similarity_threshold, existing_master_signatures, signatures,
              master_signatures, all_signatures, idx, processed,
              consolidated_count, total_consolidated, ignored_count, pc, runs,
              groups, at_start>>

VARIABLES
    folder,                         \* the files under folder_path: path -> what the file is
    batch_size,                     \* argument of create_database
    pending,                        \* the futures as_completed has not yielded yet
    broken,                         \* a worker process has died: the pool is broken
    batch,                          \* batch
    catalog,                        \* the rows of the table signatures of db_name
    inserted_count,                 \* inserted_count
    pc_db                           \* "idle", "hashing", "done"

dbVars == <<folder, batch_size, pending, broken, batch, catalog, inserted_count, pc_db>>

VARIABLES
    pool_data,                      \* the contents of the file calculate_signature reads
    pool_chunks,                    \* chunks, as _chunk_data returned them
    hashes,                         \* index of a chunk -> what its worker thread returned
    finish_order,                   \* the indexes in the order the workers finished
    collected,                      \* what list() has taken from executor.map so far
    pool_signature,                 \* what calculate_signature returned
    pc_pool                         \* "idle", "mapping", "returned"

poolVars == <<pool_data, pool_chunks, hashes, finish_order, collected,
              pool_signature, pc_pool>>

VARIABLES
    scan_threshold,                 \* threshold of scan_folder
    scan_pending,                   \* the futures as_completed has not yielded yet
    matched_files,                  \* matched_files of scan_folder, in the parent process
    error_files,                    \* error_files of scan_folder
    pc_scan                         \* "idle", "scanning", "done"

scanVars == <<scan_threshold, scan_pending, matched_files, error_files, pc_scan>>

\* the state of the batch operations
batchVars == <<dbVars, poolVars, scanVars>>

vars == <<hasherVars, rollVars, simVars, consVars, batchVars>>

---------------------------------------------------------------------------
(* The hasher programs: main() builds one FuzzyHasher with the default     *)
(* parameters and calls calculate_signature on it once per file.           *)

Programs == {"Glacier.py", "GLACIER.py"}

NoResult == NoChunks(None, NewFingerprint, <<>>)

InitRoll ==
    /\ roller = NewFingerprint
    /\ rabin = NewFingerprint
    /\ fed_roller = <<>>
    /\ fed_rabin = <<>>

InitHasher(mn, mx) ==
    /\ program \in Programs
    /\ min_chunk = mn
    /\ max_chunk = mx
    /\ fingerprint = NewFingerprint
    /\ calls = 0
    /\ op = "idle"
    /\ data = <<>>
    /\ before = NewFingerprint
    /\ result = NoResult

\* no comparison made
NoSims == [ratio_ab |-> None, ratio_ba |-> None,
           jaccard_ab |-> None, jaccard_ba |-> None]

InitSim(S) ==
    /\ compared1 \in S
    /\ compared2 \in S
    /\ sims = NoSims

\* the catalogs before consolidate_signatures is called on the working
\* catalog W, with the master catalog empty
InitCons(W, E, T) ==
    /\ similarity_threshold = T
    /\ existing_master_signatures = E
    /\ signatures = W
    /\ master_signatures = <<>>
    /\ all_signatures = <<>>
    /\ idx = 0
    /\ processed = {}
    /\ consolidated_count = 0
    /\ total_consolidated = 0
    /\ ignored_count = 0
    /\ pc = "idle"
    /\ runs = 0
    /\ groups = <<>>
    /\ at_start = [signatures |-> W, master_signatures |-> <<>>]

\* create_database has not been called: files is the folder
InitDb(files, size) ==
    /\ folder = files
    /\ batch_size = size
    /\ pending = {}
    /\ broken = FALSE
    /\ batch = <<>>
    /\ catalog = {}
    /\ inserted_count = 0
    /\ pc_db = "idle"

\* calculate_signature of GLACIER.py has not been called
InitPool ==
    /\ pool_data = <<>>
    /\ pool_chunks = <<>>
    /\ hashes = <<>>
    /\ finish_order = <<>>
    /\ collected = <<>>
    /\ pool_signature = None
    /\ pc_pool = "idle"

\* scan_folder has not been called
InitScan(thr) ==
    /\ scan_threshold = thr
    /\ scan_pending = {}
    /\ matched_files = 0
    /\ error_files = 0
    /\ pc_scan = "idle"

\* no batch operation has been started
InitBatch ==
    /\ InitDb(<<>>, 1)
    /\ InitPool
    /\ InitScan(<<1, 2>>)

Init ==
    /\ InitHasher(DefaultMinChunk, DefaultMaxChunk)
    /\ InitRoll
    /\ InitSim({<<>>})
    /\ InitCons(<<>>, {}, <<4, 5>>)
    /\ InitBatch

\* the process runs program p, no call is in progress and another file is
\* left to hash
Ready(p) == program = p /\ op = "idle" /\ calls < MaxCalls

\* Glacier.py: hasher.calculate_signature(file) for a file holding D
CalculateSignature(D) ==
    /\ Ready("Glacier.py")
    /\ LET r == FuzzyHasher_calculate_signature(D, fingerprint, min_chunk, max_chunk)
       IN /\ result' = r
          /\ fingerprint' = r.fp
    /\ before' = fingerprint
    /\ calls' = calls + 1
    /\ op' = "calculate_signature"
    /\ data' = D
    /\ UNCHANGED <<program, min_chunk, max_chunk, rollVars, simVars, consVars, batchVars>>

\* GLACIER.py: hasher.calculate_signature(file) for a file holding D
AdaptiveCalculateSignature(D) ==
    /\ Ready("GLACIER.py")
    /\ result' = AdaptiveHasher_calculate_signature(D, min_chunk, max_chunk)
    /\ before' = NewFingerprint
    /\ calls' = calls + 1
    /\ op' = "calculate_signature"
    /\ data' = D
    /\ UNCHANGED <<program, min_chunk, max_chunk, fingerprint, rollVars, simVars, consVars, batchVars>>

\* main() takes the value returned (sig1 = ..., sig2 = ...) and goes on
TakeResult ==
    /\ op # "idle"
    /\ op' = "idle"
    /\ data' = <<>>
    /\ before' = NewFingerprint
    /\ result' = NoResult
    /\ UNCHANGED <<program, min_chunk, max_chunk, fingerprint, calls, rollVars, simVars, consVars, batchVars>>

Next ==
    \/ Ready("Glacier.py") /\ \E D \in Buffers : CalculateSignature(D)
    \/ Ready("GLACIER.py") /\ \E D \in Buffers : AdaptiveCalculateSignature(D)
    \/ TakeResult

Spec == Init /\ [][Next]_vars

---------------------------------------------------------------------------
(* The chunkers on their own: a FuzzyHasher built with any parameters      *)
(* 1 <= min_chunk <= max_chunk, and _chunk_data called on any buffer.      *)

\* largest chunk parameter
MaxParam == 4

\* bytes of the buffers handed to chunk_data
ChunkBytes == {32, 255}

ChunkBuffers == SeqsUpTo(ChunkBytes, MaxLen)

InitChunk ==
    /\ \E mn \in 1..MaxParam : \E mx \in mn..MaxParam : InitHasher(mn, mx)
    /\ InitRoll
    /\ InitSim({<<>>})
    /\ InitCons(<<>>, {}, <<4, 5>>)
    /\ InitBatch

\* Glacier.py FuzzyHasher._chunk_data: self.chunker.chunk_data(data)
ChunkData(D) ==
    /\ Ready("Glacier.py")
    /\ LET r == ContentDefinedChunker_chunk_data(D, fingerprint, min_chunk, max_chunk)
       IN /\ result' = [sig |-> None, chunks |-> r.chunks, trace |-> r.trace,
                        fp |-> r.fp, normalized |-> D, chunked |-> TRUE]
          /\ fingerprint' = r.fp
    /\ before' = fingerprint
    /\ calls' = calls + 1
    /\ op' = "chunk_data"
    /\ data' = D
    /\ UNCHANGED <<program, min_chunk, max_chunk, rollVars, simVars, consVars, batchVars>>

\* GLACIER.py FuzzyHasher._chunk_data: a new AdaptiveChunker's chunk_data(data)
AdaptiveChunkData(D) ==
    /\ Ready("GLACIER.py")
    /\ LET r == Adaptive_chunk_data(D, min_chunk, max_chunk)
       IN result' = [sig |-> None, chunks |-> r.chunks, trace |-> r.trace,
                     fp |-> r.fp, normalized |-> D, chunked |-> TRUE]
    /\ before' = NewFingerprint
    /\ calls' = calls + 1
    /\ op' = "chunk_data"
    /\ data' = D
    /\ UNCHANGED <<program, min_chunk, max_chunk, fingerprint, rollVars, simVars, consVars, batchVars>>

NextChunk ==
    \/ Ready("Glacier.py") /\ \E D \in ChunkBuffers : ChunkData(D)
    \/ Ready("GLACIER.py") /\ \E D \in ChunkBuffers : AdaptiveChunkData(D)
    \/ TakeResult

SpecChunk == InitChunk /\ [][NextChunk]_vars

---------------------------------------------------------------------------
(* The rolling fingerprints on their own: update called byte by byte.      *)

\* bytes fed to one fingerprint object
MaxFed == 4

RollingUpdate(b) ==
    /\ Len(fed_roller) < MaxFed
    /\ roller' = RollingHash_update(roller, b)
    /\ fed_roller' = Append(fed_roller, b)
    /\ UNCHANGED <<hasherVars, rabin, fed_rabin, simVars, consVars, batchVars>>

RabinUpdate(b) ==
    /\ Len(fed_rabin) < MaxFed
    /\ rabin' = RabinFingerprint_update(rabin, b)
    /\ fed_rabin' = Append(fed_rabin, b)
    /\ UNCHANGED <<hasherVars, roller, fed_roller, simVars, consVars, batchVars>>

NextRoll ==
    \/ \E b \in Bytes : RollingUpdate(b)
    \/ \E b \in Bytes : RabinUpdate(b)

SpecRoll == Init /\ [][NextRoll]_vars

---------------------------------------------------------------------------
(* The similarity metrics on their own: a pair of signatures compared in   *)
(* both orders.                                                            *)

InitCompare ==
    /\ InitHasher(DefaultMinChunk, DefaultMaxChunk)
    /\ InitRoll
    /\ InitSim(ComparedSignatures)
    /\ InitCons(<<>>, {}, <<4, 5>>)
    /\ InitBatch

\* compare_signatures(sig1, sig2) (Consolidate.py, Glacier.py)
CompareSignatures ==
    /\ sims.ratio_ab = None
    /\ sims' = [sims EXCEPT !.ratio_ab = compare_signatures(compared1, compared2)]
    /\ UNCHANGED <<hasherVars, rollVars, compared1, compared2, consVars, batchVars>>

\* compare_signatures(sig2, sig1) (Consolidate.py, Glacier.py)
CompareSignaturesSwapped ==
    /\ sims.ratio_ba = None
    /\ sims' = [sims EXCEPT !.ratio_ba = compare_signatures(compared2, compared1)]
    /\ UNCHANGED <<hasherVars, rollVars, compared1, compared2, consVars, batchVars>>

\* hasher.compare_signatures(sig1, sig2) (GLACIER.py)
JaccardCompareSignatures ==
    /\ sims.jaccard_ab = None
    /\ sims' = [sims EXCEPT !.jaccard_ab = Jaccard_compare_signatures(compared1, compared2)]
    /\ UNCHANGED <<hasherVars, rollVars, compared1, compared2, consVars, batchVars>>

\* hasher.compare_signatures(sig2, sig1) (GLACIER.py)
JaccardCompareSignaturesSwapped ==
    /\ sims.jaccard_ba = None
    /\ sims' = [sims EXCEPT !.jaccard_ba = Jaccard_compare_signatures(compared2, compared1)]
    /\ UNCHANGED <<hasherVars, rollVars, compared1, compared2, consVars, batchVars>>

NextCompare ==
    \/ CompareSignatures
    \/ CompareSignaturesSwapped
    \/ JaccardCompareSignatures
    \/ JaccardCompareSignaturesSwapped

SpecCompare == InitCompare /\ [][NextCompare]_vars

---------------------------------------------------------------------------
(* The consolidator: consolidate_signatures run on a working catalog of up *)
(* to MaxW entries with unique file paths (entry k lies in directory k),   *)
(* and run again on what the run before left behind.                       *)

InitConsolidate ==
    /\ InitHasher(DefaultMinChunk, DefaultMaxChunk)
    /\ program = "Glacier.py"
    /\ InitRoll
    /\ InitSim({<<>>})
    /\ \E n \in 0..MaxW : \E rows \in [1..n -> CatalogRows] :
       \E E \in SUBSET MasterSignatures : \E T \in Thresholds :
           InitCons([k \in 1..n |-> [filepath |-> [dir |-> k, name |-> rows[k][1]],
                                     signature |-> rows[k][2]]], E, T)
    /\ InitBatch

\* consolidate_signatures up to the loop: the existing master is read and
\* the rows of signatures are fetched
StartRun ==
    /\ pc \in {"idle", "done", "failed"}
    /\ runs < MaxRuns
    /\ all_signatures' = signatures
    /\ idx' = 0
    /\ processed' = {}
    /\ consolidated_count' = 0
    /\ total_consolidated' = 0
    /\ ignored_count' = 0
    /\ groups' = <<>>
    /\ at_start' = [signatures |-> signatures, master_signatures |-> master_signatures]
    /\ runs' = runs + 1
    /\ pc' = "loop"
    /\ UNCHANGED <<hasherVars, rollVars, simVars, batchVars, similarity_threshold,
                   existing_master_signatures, signatures, master_signatures>>

\* one iteration of the loop over all_signatures, random.choices returning
\* random_chars if auto_name is called
Iterate(random_chars) ==
    /\ pc = "loop"
    /\ idx < Len(all_signatures)
    /\ idx' = idx + 1
    /\ LET filepath1 == all_signatures[idx + 1].filepath
           signature1 == all_signatures[idx + 1].signature
           group == Group(all_signatures, idx, processed, similarity_threshold)
           master_name == auto_name([k \in 1..Len(group) |-> group[k].filepath],
                                    random_chars)
       IN IF filepath1 \in processed
          THEN UNCHANGED <<signatures, master_signatures, processed,
                           consolidated_count, total_consolidated, ignored_count,
                           groups>>
          ELSE IF check_against_master(signature1, existing_master_signatures,
                                       similarity_threshold)
          THEN /\ ignored_count' = ignored_count + 1
               /\ processed' = processed \cup {filepath1}
               /\ UNCHANGED <<signatures, master_signatures, consolidated_count,
                              total_consolidated, groups>>
          ELSE IF Len(group) > 1
          THEN /\ master_signatures' = Upsert(master_signatures, master_name, group[1].signature)
               /\ signatures' = Delete(signatures, filepaths_to_delete(group))
               /\ consolidated_count' = consolidated_count + 1
               /\ total_consolidated' = total_consolidated + Len(group) - 1
               /\ processed' = processed \cup Paths(group)
               /\ groups' = Append(groups,
                      [pivot |-> idx, group |-> group, name |-> master_name,
                       processed |-> processed,
                       deleted |-> Paths(signatures)
                                     \ Paths(Delete(signatures, filepaths_to_delete(group)))])
               /\ UNCHANGED ignored_count
          ELSE /\ processed' = processed \cup {filepath1}
               /\ UNCHANGED <<signatures, master_signatures, consolidated_count,
                              total_consolidated, ignored_count, groups>>
    /\ UNCHANGED <<hasherVars, rollVars, simVars, batchVars, similarity_threshold,
                   existing_master_signatures, all_signatures, pc, runs, at_start>>

\* the loop is over: conn.execute("VACUUM").  The module sqlite3 opens a
\* transaction before the first INSERT or DELETE of a connection and commits
\* it only when the with block is left.  If no group was formed no
\* transaction is open: VACUUM runs and the counts are printed.  Otherwise
\* SQLite refuses ("cannot VACUUM from within a transaction"), the exception
\* leaves the with block and both connections are rolled back; the journals
\* are OFF, so what a rollback leaves is undefined: each table as the run
\* found it or as the loop left it.
FinishRun ==
    /\ pc = "loop"
    /\ idx = Len(all_signatures)
    /\ IF groups = <<>>
       THEN /\ pc' = "done"
            /\ UNCHANGED <<signatures, master_signatures>>
       ELSE /\ pc' = "failed"
            /\ signatures' \in {at_start.signatures, signatures}
            /\ master_signatures' \in {at_start.master_signatures, master_signatures}
    /\ UNCHANGED <<hasherVars, rollVars, simVars, batchVars, similarity_threshold,
                   existing_master_signatures, all_signatures, idx, processed,
                   consolidated_count, total_consolidated, ignored_count, runs,
                   groups, at_start>>

NextConsolidate ==
    \/ StartRun
    \/ \E random_chars \in Suffixes : Iterate(random_chars)
    \/ FinishRun

SpecConsolidate == InitConsolidate /\ [][NextConsolidate]_vars

---------------------------------------------------------------------------
(* Glacier.py create_database over a folder of up to MaxFiles files, the   *)
(* futures yielded by as_completed in any order.                            *)

\* files under folder_path
MaxFiles == 3
\* batch_size of create_database (10000 by default)
MaxBatch == 2

\* what a file can be: empty, shorter than min_chunk, long enough to be
\* chunked, unreadable (open raises inside calculate_signature), or fatal
\* to the worker process that hashes it
FileKinds ==
    {[kind |-> "data", content |-> D] :
        D \in {<<>>, <<32, 255>>, <<2, 32, 255, 2>>, <<255, 2, 32, 2, 2>>}}
        \cup {[kind |-> k, content |-> <<>>] : k \in {"unreadable", "fatal"}}

\* what calculate_signature returns in a worker for a file of that kind: the
\* worker hashes with a copy of the hasher, every exception is caught there
WorkerResult(file) ==
    IF file.kind = "unreadable" THEN None
    ELSE FuzzyHasher_calculate_signature(file.content, fingerprint, min_chunk, max_chunk).sig

\* cursor.executemany("INSERT OR REPLACE INTO signatures (signature) VALUES (?)", batch)
\* on the table signatures (signature TEXT PRIMARY KEY)
InsertBatch(table, records) ==
    table \cup {[signature |-> records[k][1]] : k \in 1..Len(records)}

InitCatalog ==
    /\ InitHasher(DefaultMinChunk, DefaultMaxChunk)
    /\ program = "Glacier.py"
    /\ InitRoll
    /\ InitSim({<<>>})
    /\ InitCons(<<>>, {}, <<4, 5>>)
    /\ \E n \in 0..MaxFiles : \E files \in [1..n -> FileKinds] :
       \E size \in 1..MaxBatch : InitDb(files, size)
    /\ InitPool
    /\ InitScan(<<1, 2>>)

\* create_database up to the loop: the table is created and a future is
\* submitted for every file
SubmitAll ==
    /\ pc_db = "idle"
    /\ pending' = DOMAIN folder
    /\ pc_db' = "hashing"
    /\ UNCHANGED <<hasherVars, rollVars, simVars, consVars, poolVars, scanVars, folder, batch_size,
                   broken, batch, catalog, inserted_count>>

\* as_completed yields the future of file fp and the loop body runs on it.
\* future.result() raises if the worker process died on this file or the
\* pool was broken before; a result that is not None is appended to batch,
\* and a full batch is inserted and committed.
Completed(fp) ==
    /\ pc_db = "hashing"
    /\ fp \in pending
    /\ pending' = pending \ {fp}
    /\ IF broken \/ folder[fp].kind = "fatal"
       THEN /\ broken' = TRUE
            /\ UNCHANGED <<batch, catalog, inserted_count>>
       ELSE /\ UNCHANGED broken
            /\ LET returned == WorkerResult(folder[fp])
                   grown == Append(batch, <<returned>>)
               IN IF returned = None
                  THEN UNCHANGED <<batch, catalog, inserted_count>>
                  ELSE IF Len(grown) >= batch_size
                  THEN /\ catalog' = InsertBatch(catalog, grown)
                       /\ inserted_count' = inserted_count + Len(grown)
                       /\ batch' = <<>>
                  ELSE /\ batch' = grown
                       /\ UNCHANGED <<catalog, inserted_count>>
    /\ UNCHANGED <<hasherVars, rollVars, simVars, consVars, poolVars, scanVars, folder, batch_size, pc_db>>

\* the generator is exhausted: what is left in batch is inserted and the
\* connection closed
CloseDatabase ==
    /\ pc_db = "hashing"
    /\ pending = {}
    /\ catalog' = InsertBatch(catalog, batch)
    /\ inserted_count' = inserted_count + Len(batch)
    /\ batch' = <<>>
    /\ pc_db' = "done"
    /\ UNCHANGED <<hasherVars, rollVars, simVars, consVars, poolVars, scanVars, folder, batch_size,
                   pending, broken>>

NextCatalog ==
    \/ SubmitAll
    \/ \E fp \in DOMAIN folder : Completed(fp)
    \/ CloseDatabase

SpecCatalog == InitCatalog /\ [][NextCatalog]_vars

---------------------------------------------------------------------------
(* GLACIER.py calculate_signature with the thread pool of                  *)
(* _parallel_hash_chunks: the worker threads finish in any order.          *)

\* bytes of a file hashed with the pool
MaxPoolLen == 4

PoolBuffers == SeqsUpTo(ChunkBytes, MaxPoolLen)

\* the index of the chunk whose hash list() takes next, in the order the
\* workers finished; 0 if there is none
MapNext_as_completed(got, ready, order) ==
    IF Len(got) < Len(order) THEN order[Len(got) + 1] ELSE 0

\* the index of the chunk whose hash list() takes next from executor.map:
\* the iterator returns the results in the order of the arguments, each
\* when its worker has finished; 0 while that worker is running
MapNext(got, ready, order) ==
    IF Len(got) + 1 \in ready THEN Len(got) + 1 ELSE 0

InitParallel ==
    /\ \E mn \in 1..MaxParam : \E mx \in mn..MaxParam : InitHasher(mn, mx)
    /\ program = "GLACIER.py"
    /\ InitRoll
    /\ InitSim({<<>>})
    /\ InitCons(<<>>, {}, <<4, 5>>)
    /\ InitBatch

\* calculate_signature on a file holding D, up to executor.map: an empty
\* file and one shorter than min_chunk return at once, otherwise the chunks
\* are handed to the pool
StartHashing(D) ==
    /\ pool_data' = D
    /\ hashes' = <<>>
    /\ finish_order' = <<>>
    /\ collected' = <<>>
    /\ IF Len(D) = 0
       THEN /\ pool_signature' = None
            /\ pool_chunks' = <<>>
            /\ pc_pool' = "returned"
       ELSE IF Len(normalize_data(D)) < min_chunk
       THEN /\ pool_signature' = hash_chunk(normalize_data(D))
            /\ pool_chunks' = <<>>
            /\ pc_pool' = "returned"
       ELSE /\ pool_signature' = None
            /\ pool_chunks' = Adaptive_chunk_data(normalize_data(D), min_chunk, max_chunk).chunks
            /\ pc_pool' = "mapping"
    /\ UNCHANGED <<hasherVars, rollVars, simVars, consVars, dbVars, scanVars>>

\* a worker thread returns from _hash_chunk(chunk k)
WorkerFinishes(k) ==
    /\ pc_pool = "mapping"
    /\ k \in 1..Len(pool_chunks)
    /\ k \notin DOMAIN hashes
    /\ hashes' = [j \in DOMAIN hashes \cup {k} |->
                     IF j = k THEN hash_chunk(pool_chunks[k].chunk) ELSE hashes[j]]
    /\ finish_order' = Append(finish_order, k)
    /\ UNCHANGED <<hasherVars, rollVars, simVars, consVars, dbVars, scanVars, pool_data,
                   pool_chunks, collected, pool_signature, pc_pool>>

\* list() takes the next result from the iterator of executor.map
TakeNext ==
    /\ pc_pool = "mapping"
    /\ MapNext(collected, DOMAIN hashes, finish_order) # 0
    /\ collected' = Append(collected, hashes[MapNext(collected, DOMAIN hashes, finish_order)])
    /\ UNCHANGED <<hasherVars, rollVars, simVars, consVars, dbVars, scanVars, pool_data,
                   pool_chunks, hashes, finish_order, pool_signature, pc_pool>>

\* the list is complete and the pool shut down: the hashes are joined and
\* the signature returned
ReturnSignature ==
    /\ pc_pool = "mapping"
    /\ Len(collected) = Len(pool_chunks)
    /\ DOMAIN hashes = 1..Len(pool_chunks)
    /\ pool_signature' = Flatten(collected)
    /\ pc_pool' = "returned"
    /\ UNCHANGED <<hasherVars, rollVars, simVars, consVars, dbVars, scanVars, pool_data,
                   pool_chunks, hashes, finish_order, collected>>

NextParallel ==
    \/ pc_pool = "idle" /\ \E D \in PoolBuffers : StartHashing(D)
    \/ \E k \in 1..Len(pool_chunks) : WorkerFinishes(k)
    \/ TakeNext
    \/ ReturnSignature

SpecParallel == InitParallel /\ [][NextParallel]_vars

---------------------------------------------------------------------------
(* Glacier.py scan_folder over a folder of up to MaxFiles files, against   *)
(* a catalog that create_database has written.                             *)

\* the signatures a catalog can hold: those of the files of FileKinds
CatalogRowsOf(kinds) ==
    {[signature |-> WorkerResult(file)] : file \in {f \in kinds : f.kind = "data" /\ f.content # <<>>}}

\* scan_file(file_path, db_name, threshold)[0]: the file has a signature
\* and its similarity to a signature of the table is above the threshold
scan_file(file, table, thr) ==
    IF file.kind # "data" \/ WorkerResult(file) = None THEN FALSE
    ELSE \E row \in table :
            Exceeds(compare_signatures(WorkerResult(file), row.signature), thr)

InitScanFolder ==
    /\ InitHasher(DefaultMinChunk, DefaultMaxChunk)
    /\ program = "Glacier.py"
    /\ InitRoll
    /\ InitSim({<<>>})
    /\ InitCons(<<>>, {}, <<4, 5>>)
    /\ InitPool
    /\ InitScan(<<1, 2>>)
    /\ \E n \in 0..MaxFiles : \E files \in [1..n -> FileKinds] :
       \E rows \in SUBSET CatalogRowsOf(FileKinds) :
           /\ folder = files
           /\ catalog = rows
           /\ inserted_count = Cardinality(rows)
    /\ batch_size = 1
    /\ pending = {}
    /\ broken = FALSE
    /\ batch = <<>>
    /\ pc_db = "done"

\* scan_folder up to the loop: the files are listed, the counters set to 0
\* and process_file submitted for every file
SubmitScans ==
    /\ pc_scan = "idle"
    /\ scan_pending' = DOMAIN folder
    /\ matched_files' = 0
    /\ error_files' = 0
    /\ pc_scan' = "scanning"
    /\ UNCHANGED <<hasherVars, rollVars, simVars, consVars, dbVars, poolVars,
                   scan_threshold>>

\* as_completed yields the future of file fp.  process_file is a function
\* local to scan_folder, which the executor cannot pickle to send it to a
\* worker process: the future holds that error, future.result() raises it
\* and the file is counted in error_files.  No worker runs process_file, and
\* matched_files is not incremented.
ScanCompleted(fp) ==
    /\ pc_scan = "scanning"
    /\ fp \in scan_pending
    /\ scan_pending' = scan_pending \ {fp}
    /\ error_files' = error_files + 1
    /\ UNCHANGED <<hasherVars, rollVars, simVars, consVars, dbVars, poolVars,
                   scan_threshold, matched_files, pc_scan>>

\* the summary is printed
ReportScan ==
    /\ pc_scan = "scanning"
    /\ scan_pending = {}
    /\ pc_scan' = "done"
    /\ UNCHANGED <<hasherVars, rollVars, simVars, consVars, dbVars, poolVars,
                   scan_threshold, scan_pending, matched_files, error_files>>

NextScanFolder ==
    \/ SubmitScans
    \/ \E fp \in DOMAIN folder : ScanCompleted(fp)
    \/ ReportScan

SpecScanFolder == InitScanFolder /\ [][NextScanFolder]_vars

---------------------------------------------------------------------------
(* Properties of the hasher programs *)

\* the signature a hasher built for this call alone returns for D
FreshSignature(D) ==
    IF program = "Glacier.py"
    THEN FuzzyHasher_calculate_signature(D, NewFingerprint, min_chunk, max_chunk).sig
    ELSE AdaptiveHasher_calculate_signature(D, min_chunk, max_chunk).sig

\* C1: with the default parameters, the signature calculate_signature returns
\* for a buffer is the one a fresh hasher returns for it, whatever files the
\* same hasher instance hashed before (Glacier.py keeps the fingerprint's
\* hash and window from one call to the next).
C1_Determinism ==
    op = "calculate_signature" => result.sig = FreshSignature(data)

\* a second call on a Glacier.py hasher whose fingerprint still holds the
\* window of the previous file, cutting the buffer into several chunks
C1_Witness ==
    /\ program = "Glacier.py"
    /\ op = "calculate_signature"
    /\ calls = 2
    /\ Len(before.window) = window_size
    /\ before.hash # 0
    /\ Len(result.chunks) >= 2

\* the offset at which the chunk holding offset i starts
StartOf(chunks, i) ==
    LET k == CHOOSE k \in 1..Len(chunks) :
                 /\ chunks[k].start <= i
                 /\ i < chunks[k].start + Len(chunks[k].chunk)
    IN chunks[k].start

\* C2: in both programs, with the default parameters, calculate_signature
\* cuts a chunk at offset i iff len = i - start + 1 >= min_chunk and (the low
\* `bits` bits of the rolling fingerprint are all zero or len >= max_chunk).
C2_BoundaryRule ==
    (op = "calculate_signature" /\ result.chunked) =>
        \A i \in 0..(Len(result.normalized) - 1) :
            LET len == i - StartOf(result.chunks, i) + 1
                fpr == result.trace[i + 1].fingerprint
            IN result.trace[i + 1].cut <=>
                   /\ len >= min_chunk
                   /\ (BitAnd(fpr, Pow2(bits) - 1) = 0 \/ len >= max_chunk)

\* C3: every chunk chunk_data returns, except possibly the last, has
\* min_chunk <= length <= max_chunk; the last one is non-empty and no longer
\* than max_chunk.
C3_ChunkSize ==
    op = "chunk_data" =>
        \A k \in 1..Len(result.chunks) :
            LET n == Len(result.chunks[k].chunk)
            IN /\ 1 <= n
               /\ n <= max_chunk
               /\ (k < Len(result.chunks) => min_chunk <= n)

\* a chunk cut because it reached max_chunk, followed by a remainder shorter
\* than min_chunk
C3_Witness ==
    /\ op = "chunk_data"
    /\ 1 < min_chunk
    /\ min_chunk < max_chunk
    /\ Len(result.chunks) >= 2
    /\ Len(result.chunks[1].chunk) = max_chunk
    /\ Len(result.chunks[Len(result.chunks)].chunk) < min_chunk

RECURSIVE ChunkBytesOf(_)
ChunkBytesOf(chunks) ==
    IF chunks = <<>> THEN <<>> ELSE Head(chunks).chunk \o ChunkBytesOf(Tail(chunks))

\* C4: the chunks chunk_data returns, in list order, partition the buffer
\* from left to right: the first starts at offset 0, each starts where the
\* previous one ends, the recorded start is the true offset, the lengths sum
\* to the length of the buffer, and an empty buffer gives no chunks.
C4_Coverage ==
    op = "chunk_data" =>
        /\ ChunkBytesOf(result.chunks) = data
        /\ \A k \in 1..Len(result.chunks) :
               /\ result.chunks[k].start = Len(ChunkBytesOf(SubSeq(result.chunks, 1, k - 1)))
               /\ result.chunks[k].chunk =
                      Slice(data, result.chunks[k].start,
                            result.chunks[k].start + Len(result.chunks[k].chunk))
        /\ (data = <<>> => result.chunks = <<>>)

\* a buffer cut at a content-defined boundary, on a chunker used before,
\* with a remainder after the last cut
C4_Witness ==
    /\ op = "chunk_data"
    /\ calls = 2
    /\ Len(result.chunks) >= 3
    /\ \E i \in 1..Len(result.trace) : result.trace[i].cut
    /\ ~ result.trace[Len(result.trace)].cut

---------------------------------------------------------------------------
(* Properties of the rolling fingerprints *)

\* the last n elements of s
LastN(s, n) == SubSeq(s, Len(s) - n + 1, Len(s))

\* sum(w[j] * b^(n-1-j) for j in range(n)) mod m
RECURSIVE PolyHash(_, _, _)
PolyHash(w, b, m) ==
    IF w = <<>> THEN 0
    ELSE (Head(w) * PowMod(b, Len(w) - 1, m) + PolyHash(Tail(w), b, m)) % m

\* C5: after any sequence of update calls the window holds the last
\* min(k, window_size) bytes fed, in arrival order, and the fingerprint is the
\* polynomial hash of exactly those bytes, for RollingHash and RabinFingerprint.
C5_Fifo ==
    /\ roller.window = LastN(fed_roller, Min(Len(fed_roller), window_size))
    /\ roller.hash = PolyHash(roller.window, base, modulus)
    /\ rabin.window = LastN(fed_rabin, Min(Len(fed_rabin), window_size))
    /\ rabin.hash = PolyHash(rabin.window, 256, poly)

\* both windows have been full and have dropped a byte that differs from
\* the newest one
C5_Witness ==
    /\ Len(fed_roller) > window_size
    /\ Len(fed_rabin) > window_size
    /\ fed_roller[1] # fed_roller[Len(fed_roller)]
    /\ fed_rabin[1] # fed_rabin[Len(fed_rabin)]

---------------------------------------------------------------------------
(* Properties of the similarity metrics *)

\* C6: compare_signatures(a, b) = compare_signatures(b, a) for all signatures
\* a and b, for the SequenceMatcher ratio of Consolidate.py and Glacier.py
\* and for the Jaccard variant of GLACIER.py.
C6_Symmetry ==
    /\ (sims.ratio_ab # None /\ sims.ratio_ba # None) => sims.ratio_ab = sims.ratio_ba
    /\ (sims.jaccard_ab # None /\ sims.jaccard_ba # None)
           => sims.jaccard_ab = sims.jaccard_ba

---------------------------------------------------------------------------
(* Properties of the consolidator *)

\* the 0-based position in L of the entry with the given file path
IndexOf(L, path) == (CHOOSE k \in 1..Len(L) : L[k].filepath = path) - 1

\* the similarity of two signatures is above the threshold of the run
Near(a, b) ==
    LET r == Similarity(a, b)
    IN r[1] * similarity_threshold[2] > similarity_threshold[1] * r[2]

\* the entry's signature is near a signature of the existing master
MatchesExisting(entry) ==
    \E e \in existing_master_signatures : Near(entry.signature, e)

\* C7: every group starts with its pivot, and an entry is a further member
\* of the group only if it comes after the pivot in all_signatures, was not
\* processed when the group was formed, and its similarity to the pivot's
\* signature is strictly above the threshold; membership never comes from
\* similarity to another member, and only such members are deleted from the
\* signatures table with the group.
C7_FixedPivot ==
    \A g \in 1..Len(groups) :
        LET pivot == all_signatures[groups[g].pivot + 1]
            group == groups[g].group
        IN /\ group[1] = pivot
           /\ \A k \in 2..Len(group) :
                /\ IndexOf(all_signatures, group[k].filepath) > groups[g].pivot
                /\ group[k].filepath \notin groups[g].processed
                /\ Near(pivot.signature, group[k].signature)
           /\ groups[g].deleted \subseteq {group[k].filepath : k \in 2..Len(group)}

\* a group of pivot a with a member b, and a later unprocessed entry c that
\* is near b but not near a: c is not in the group and still in the table
C7_Witness ==
    \E g \in 1..Len(groups) : \E k \in 2..Len(groups[g].group) :
        \E c \in (groups[g].pivot + 2)..Len(all_signatures) :
            /\ all_signatures[c].filepath \notin groups[g].processed
            /\ Near(groups[g].group[k].signature, all_signatures[c].signature)
            /\ ~Near(groups[g].group[1].signature, all_signatures[c].signature)
            /\ all_signatures[c].filepath \notin Paths(groups[g].group)
            /\ all_signatures[c].filepath \in Paths(signatures)
            /\ idx = Len(all_signatures)

\* C8: a run on the signatures table that an earlier run left behind, with
\* the same threshold and the same existing master, forms no group: it
\* deletes no row of signatures and writes no row of master_signatures.
C8_Stability ==
    (runs >= 2 /\ pc \in {"loop", "done", "failed"}) =>
        /\ signatures = at_start.signatures
        /\ master_signatures = at_start.master_signatures
        /\ consolidated_count = 0
        /\ total_consolidated = 0
        /\ groups = <<>>

\* C9 as stated: at the end of a run no entry whose signature is near a
\* signature of the existing master is left in the signatures table, and
\* none is the pivot of a group.
C9_DroppedFromW ==
    pc \in {"done", "failed"} =>
        \A k \in 1..Len(all_signatures) :
            MatchesExisting(all_signatures[k]) =>
                /\ all_signatures[k].filepath \notin Paths(signatures)
                /\ \A g \in 1..Len(groups) : groups[g].pivot # k - 1

\* C9: an entry whose signature is near a signature of the existing master
\* is never the pivot of a group, so no master entry is written for it; it
\* is not deleted for that: it stays in the signatures table unless an
\* earlier pivot took it into its group, and ignored_count counts the
\* entries passed so far that match and were in no group.
C9_IgnoredKept ==
    pc \in {"loop", "done", "failed"} =>
        /\ \A k \in 1..Len(all_signatures) :
              MatchesExisting(all_signatures[k]) =>
                  /\ \A g \in 1..Len(groups) : groups[g].pivot # k - 1
                  /\ \/ all_signatures[k].filepath \in Paths(signatures)
                     \/ \E g \in 1..Len(groups) :
                           /\ groups[g].pivot < k - 1
                           /\ all_signatures[k].filepath \in groups[g].deleted
        /\ ignored_count =
              Cardinality({k \in 1..idx :
                              /\ MatchesExisting(all_signatures[k])
                              /\ \A g \in 1..Len(groups) :
                                    all_signatures[k].filepath \notin Paths(groups[g].group)})

\* the loop of a run is over in which an entry was ignored and is still in
\* the table, and a group was formed
C9_Witness ==
    /\ pc = "loop"
    /\ idx = Len(all_signatures)
    /\ ignored_count >= 1
    /\ groups # <<>>
    /\ \E k \in 1..Len(all_signatures) :
          /\ MatchesExisting(all_signatures[k])
          /\ all_signatures[k].filepath \in Paths(signatures)

\* C10: when the first run is over, which started with an empty master
\* catalog, master_signatures has as many rows as groups were formed,
\* whatever random.choices returned.
C10_OneEntryPerCluster ==
    (pc \in {"done", "failed"} /\ runs = 1) =>
        Cardinality(DOMAIN master_signatures) = consolidated_count

\* C13: from the moment a group is formed to the end of the run, its first
\* entry (the pivot) is in the signatures table; the rows missing from the
\* table are group members other than the first; and a row of
\* master_signatures under the name given to a group of the run carries the
\* signature of the pivot of a group of the run, which is in the table.
C13_RepresentativeRetained ==
    pc \in {"loop", "done", "failed"} =>
        /\ \A g \in 1..Len(groups) : groups[g].group[1] \in
              {signatures[k] : k \in 1..Len(signatures)}
        /\ Paths(all_signatures) \ Paths(signatures) \subseteq
              UNION {{groups[g].group[k].filepath : k \in 2..Len(groups[g].group)} :
                        g \in 1..Len(groups)}
        /\ \A g \in 1..Len(groups) :
              groups[g].name \in DOMAIN master_signatures =>
                  \E h \in 1..Len(groups) :
                      /\ master_signatures[groups[g].name] = groups[h].group[1].signature
                      /\ groups[h].group[1].filepath \in Paths(signatures)

\* the loop of a run is over that formed two groups: their master entries
\* are written, their second members deleted and their pivots left
C13_Witness ==
    /\ pc = "loop"
    /\ idx = Len(all_signatures)
    /\ Len(groups) = 2
    /\ Cardinality(DOMAIN master_signatures) = 2
    /\ Len(all_signatures) = 4
    /\ Len(signatures) = 2

---------------------------------------------------------------------------
(* Properties of the batch operations *)

\* calculate_signature returns a signature for the file
Hashed(file) == file.kind = "data" /\ WorkerResult(file) # None

\* C11: when create_database is done, the table holds exactly one entry
\* (filepath, signature) for each file whose calculate_signature returned a
\* signature, identified by the file's path, and none for the other files;
\* a file that failed does not keep the entries of the others from being
\* written.
C11_CatalogEntries ==
    pc_db = "done" =>
        /\ \A fp \in DOMAIN folder :
              Hashed(folder[fp])
                  => \E row \in catalog :
                        /\ "filepath" \in DOMAIN row
                        /\ row.filepath = fp
                        /\ row.signature = WorkerResult(folder[fp])
        /\ Cardinality(catalog) =
              Cardinality({fp \in DOMAIN folder : Hashed(folder[fp])})

\* C12: the k-th group of 8 characters of the signature that GLACIER.py's
\* calculate_signature returns is the hash of the k-th chunk of the buffer,
\* in whatever order the worker threads finished, and the signature is the
\* one sequential hashing gives.
C12_OrderPreserved ==
    (pc_pool = "returned" /\ pool_chunks # <<>>) =>
        /\ Len(pool_signature) = 8 * Len(pool_chunks)
        /\ \A k \in 1..Len(pool_chunks) :
              SubSeq(pool_signature, 8 * (k - 1) + 1, 8 * k)
                  = hash_chunk(pool_chunks[k].chunk)
        /\ pool_signature
              = AdaptiveHasher_calculate_signature(pool_data, min_chunk, max_chunk).sig

\* a signature of three chunks or more has been returned, the worker of the
\* last chunk having finished first and that of the first chunk last, and
\* the first and the last chunk differ in their hashes
C12_Witness ==
    /\ pc_pool = "returned"
    /\ Len(pool_chunks) >= 3
    /\ finish_order[1] = Len(pool_chunks)
    /\ finish_order[Len(pool_chunks)] = 1
    /\ hashes[1] # hashes[Len(pool_chunks)]

\* C14: when scan_folder is done, the count of files with matches it
\* reports is the number of files of the folder for which scan_file finds a
\* signature of the catalog with a similarity above the threshold.
C14_MatchCount ==
    pc_scan = "done" =>
        matched_files =
            Cardinality({fp \in DOMAIN folder : scan_file(folder[fp], catalog, scan_threshold)})

====
